---- MODULE Spec2Model ----
(***************************************************************************)
(* A model of lib/kernel.js: the IPython kernel's message codec (Message), *)
(* its dispatcher (Kernel~_onMessage), the heartbeat listener and the      *)
(* execute_request lifecycle callbacks.                                    *)
(*                                                                         *)
(* Frames are sequences of bytes.  A byte is written as a short string; a  *)
(* JSON text is a sequence of bytes in which punctuation, literals and the *)
(* body of a quoted string are one byte each.                              *)
(***************************************************************************)
EXTENDS Integers, Sequences, FiniteSets, TLC

(***************************************************************************)
(* Bounds of the model.                                                    *)
(***************************************************************************)
MaxArrivals == 2

(***************************************************************************)
(* JavaScript values.  Every value is a record of the same shape: t is the *)
(* type, s the body of a string, n a number, kv the members of an object   *)
(* (in insertion order) or the elements of an array.                       *)
(***************************************************************************)
Undefined == [t |-> "undefined", s |-> "", n |-> 0, kv |-> <<>>]

Null == [t |-> "null", s |-> "", n |-> 0, kv |-> <<>>]

Str(x) == [t |-> "string", s |-> x, n |-> 0, kv |-> <<>>]

Num(k) == [t |-> "number", s |-> "", n |-> k, kv |-> <<>>]

Obj(members) == [t |-> "object", s |-> "", n |-> 0, kv |-> members]

Arr(elements) == [t |-> "array", s |-> "", n |-> 0, kv |-> elements]

KV(key, value) == [k |-> key, v |-> value]

\* obj[key]: the member of an object, undefined when it has none.
Get(obj, key) ==
    IF obj.t = "object" /\ \E i \in DOMAIN obj.kv : obj.kv[i].k = key
    THEN obj.kv[CHOOSE i \in DOMAIN obj.kv : obj.kv[i].k = key].v
    ELSE Undefined

\* obj[key] = value: an existing member keeps its place, a new one is appended.
SetKey(members, key, value) ==
    IF \E i \in DOMAIN members : members[i].k = key
    THEN [i \in DOMAIN members |->
             IF members[i].k = key THEN KV(key, value) ELSE members[i]]
    ELSE Append(members, KV(key, value))

\* Reading a property of undefined or null throws a TypeError.
HasProperties(value) == value.t \notin {"undefined", "null"}

(***************************************************************************)
(* JSON.  The decimal numerals the model writes.                           *)
(***************************************************************************)
NumTok == <<"0", "1", "2", "3", "4", "5", "6", "7", "8", "9", "10", "11", "12">>

IsNumTok(b) == \E i \in DOMAIN NumTok : NumTok[i] = b

NumOfTok(b) == (CHOOSE i \in DOMAIN NumTok : NumTok[i] = b) - 1

RECURSIVE Stringify(_)
RECURSIVE StringifyMembers(_, _)
RECURSIVE StringifyElements(_, _)

\* JSON.stringify of a value that is not undefined.
Stringify(value) ==
    CASE value.t = "null" -> <<"null">>
      [] value.t = "string" -> <<"\"", value.s, "\"">>
      [] value.t = "number" -> <<NumTok[value.n + 1]>>
      [] value.t = "object" -> <<"{">> \o StringifyMembers(value.kv, TRUE) \o <<"}">>
      [] value.t = "array" -> <<"[">> \o StringifyElements(value.kv, TRUE) \o <<"]">>

\* The members of an object; a member whose value is undefined is left out.
StringifyMembers(members, first) ==
    IF members = <<>> THEN <<>>
    ELSE LET m == Head(members) IN
         IF m.v.t = "undefined" THEN StringifyMembers(Tail(members), first)
         ELSE (IF first THEN <<>> ELSE <<",">>)
              \o <<"\"", m.k, "\"", ":">> \o Stringify(m.v)
              \o StringifyMembers(Tail(members), FALSE)

\* The elements of an array; an undefined element is written as null.
StringifyElements(elements, first) ==
    IF elements = <<>> THEN <<>>
    ELSE LET e == Head(elements) IN
         (IF first THEN <<>> ELSE <<",">>)
         \o (IF e.v.t = "undefined" THEN <<"null">> ELSE Stringify(e.v))
         \o StringifyElements(Tail(elements), FALSE)

ParseFail == [ok |-> FALSE, v |-> Undefined, rest |-> <<>>]

ParseOk(value, rest) == [ok |-> TRUE, v |-> value, rest |-> rest]

RECURSIVE ParseValue(_)
RECURSIVE ParseMembers(_, _)
RECURSIVE ParseElements(_, _)

\* One JSON value at the front of a text, and the text after it.
ParseValue(text) ==
    IF text = <<>> THEN ParseFail
    ELSE LET h == Head(text)
             r == Tail(text)
         IN CASE h = "null" -> ParseOk(Null, r)
              [] IsNumTok(h) -> ParseOk(Num(NumOfTok(h)), r)
              [] h = "\"" ->
                    IF Len(r) >= 2 /\ r[1] # "\"" /\ r[2] = "\""
                    THEN ParseOk(Str(r[1]), SubSeq(r, 3, Len(r)))
                    ELSE ParseFail
              [] h = "{" ->
                    IF r # <<>> /\ Head(r) = "}"
                    THEN ParseOk(Obj(<<>>), Tail(r))
                    ELSE ParseMembers(r, <<>>)
              [] h = "[" ->
                    IF r # <<>> /\ Head(r) = "]"
                    THEN ParseOk(Arr(<<>>), Tail(r))
                    ELSE ParseElements(r, <<>>)
              [] OTHER -> ParseFail

\* "key": value, then a comma and more members or the closing brace.
ParseMembers(text, members) ==
    IF Len(text) >= 4 /\ text[1] = "\"" /\ text[2] # "\"" /\ text[3] = "\""
       /\ text[4] = ":"
    THEN LET p == ParseValue(SubSeq(text, 5, Len(text))) IN
         IF ~p.ok \/ p.rest = <<>> THEN ParseFail
         ELSE LET ms == SetKey(members, text[2], p.v) IN
              CASE Head(p.rest) = "}" -> ParseOk(Obj(ms), Tail(p.rest))
                [] Head(p.rest) = "," -> ParseMembers(Tail(p.rest), ms)
                [] OTHER -> ParseFail
    ELSE ParseFail

ParseElements(text, elements) ==
    LET p == ParseValue(text) IN
    IF ~p.ok \/ p.rest = <<>> THEN ParseFail
    ELSE LET es == Append(elements, KV("", p.v)) IN
         CASE Head(p.rest) = "]" -> ParseOk(Arr(es), Tail(p.rest))
           [] Head(p.rest) = "," -> ParseElements(Tail(p.rest), es)
           [] OTHER -> ParseFail

\* JSON.parse accepts a text that is one value and nothing more.
JSONparseOK(text) == LET p == ParseValue(text) IN p.ok /\ p.rest = <<>>

JSONparse(text) == ParseValue(text).v

(***************************************************************************)
(* Buffers and strings.  Buffer.toString decodes UTF-8 and replaces a byte *)
(* that is no UTF-8 by U+FFFD; a string is sent and hashed as its UTF-8    *)
(* encoding.                                                               *)
(***************************************************************************)
BufferToString(buffer) ==
    [i \in DOMAIN buffer |-> IF buffer[i] = "xFF" THEN "uFFFD" ELSE buffer[i]]

StringToBuffer(string) == string

(***************************************************************************)
(* crypto.createHmac(scheme, key) ... digest("hex").  The MAC is ideal:    *)
(* the digest determines the scheme, the key and the bytes hashed, which   *)
(* are the concatenation of what the update calls were given.  The digest  *)
(* is written in hexadecimal digits, so it holds no byte that is no UTF-8. *)
(***************************************************************************)
Hex(data) == [i \in DOMAIN data |-> IF data[i] = "xFF" THEN "ff" ELSE data[i]]

HmacDigest(scheme, key, data) ==
    <<"hmac">> \o scheme \o <<"/">> \o Hex(key) \o <<"|">> \o Hex(data)

(***************************************************************************)
(* Message (kernel.js:224-332).  A field that holds a string or undefined  *)
(* is a record: def tells whether it is defined, s is the string.          *)
(***************************************************************************)
NoString == [def |-> FALSE, s |-> <<>>]

String(x) == [def |-> TRUE, s |-> x]

\* requestArguments[i], with JavaScript's indices from 0.
HasArg(requestArguments, i) == i + 1 <= Len(requestArguments)

Arg(requestArguments, i) == requestArguments[i + 1]

\* toString of parse: undefined stays undefined.
ArgToString(requestArguments, i) ==
    IF HasArg(requestArguments, i)
    THEN String(BufferToString(Arg(requestArguments, i)))
    ELSE NoString

DefaultScheme == <<"sha256">>

\* The fields the constructor sets before it parses.
NewMessage(scheme, key) ==
    [idents |-> NoString, delimiter |-> NoString, signature |-> NoString,
     header |-> Undefined, parentHeader |-> Undefined, metadata |-> NoString,
     content |-> Undefined, blob |-> NoString,
     scheme |-> IF scheme = <<>> THEN DefaultScheme ELSE scheme,
     key |-> key,
     signatureOK |-> "undefined"]

\* The digest parse computes: four updates, frames 3 to 6, in that order.
ParseDigest(requestArguments, scheme, key) ==
    HmacDigest(scheme, key,
               Arg(requestArguments, 3) \o Arg(requestArguments, 4)
               \o Arg(requestArguments, 5) \o Arg(requestArguments, 6))

\* The decoding part of parse, after the signature was accepted.
ParseDecode(m, requestArguments) ==
    LET hOK == JSONparseOK(BufferToString(Arg(requestArguments, 3)))
        pOK == hOK /\ JSONparseOK(BufferToString(Arg(requestArguments, 4)))
        cOK == pOK /\ JSONparseOK(BufferToString(Arg(requestArguments, 6)))
    IN [raised |-> IF cOK THEN "none" ELSE "SyntaxError",
        msg |-> [m EXCEPT
            !.idents = ArgToString(requestArguments, 0),
            !.delimiter = ArgToString(requestArguments, 1),
            !.header = IF hOK
                       THEN JSONparse(BufferToString(Arg(requestArguments, 3)))
                       ELSE Undefined,
            !.parentHeader = IF pOK
                             THEN JSONparse(BufferToString(Arg(requestArguments, 4)))
                             ELSE Undefined,
            !.metadata = IF pOK THEN ArgToString(requestArguments, 5) ELSE NoString,
            !.content = IF cOK
                        THEN JSONparse(BufferToString(Arg(requestArguments, 6)))
                        ELSE Undefined,
            !.blob = IF cOK THEN ArgToString(requestArguments, 7) ELSE NoString]]

\* Parse with "=" in the place of "===": the digest is assigned to the
\* signature and every signature is accepted.
ParseAssignsSignature(requestArguments, scheme, key) ==
    LET m0 == NewMessage(scheme, key) IN
    IF ~HasArg(requestArguments, 6)
    THEN [raised |-> "TypeError", msg |-> m0]
    ELSE ParseDecode([m0 EXCEPT
             !.signature = String(ParseDigest(requestArguments, m0.scheme, m0.key)),
             !.signatureOK = "true"], requestArguments)

\* Parse comparing the lengths of the signature and the digest.
ParseComparesLength(requestArguments, scheme, key) ==
    LET m0 == NewMessage(scheme, key) IN
    IF ~HasArg(requestArguments, 6)
    THEN [raised |-> "TypeError", msg |-> m0]
    ELSE LET signature == BufferToString(Arg(requestArguments, 2))
             ok == Len(signature) = Len(ParseDigest(requestArguments, m0.scheme, m0.key))
             m1 == [m0 EXCEPT !.signature = String(signature),
                              !.signatureOK = IF ok THEN "true" ELSE "false"]
         IN IF ~ok THEN [raised |-> "none", msg |-> m1]
            ELSE ParseDecode(m1, requestArguments)

\* Parse without the return after a failed signature check.
ParseDecodesUnchecked(requestArguments, scheme, key) ==
    LET m0 == NewMessage(scheme, key) IN
    IF ~HasArg(requestArguments, 6)
    THEN [raised |-> "TypeError", msg |-> m0]
    ELSE LET signature == BufferToString(Arg(requestArguments, 2))
             ok == signature = ParseDigest(requestArguments, m0.scheme, m0.key)
         IN ParseDecode([m0 EXCEPT !.signature = String(signature),
                                   !.signatureOK = IF ok THEN "true" ELSE "false"],
                        requestArguments)

\* new Message(requestArguments, scheme, key): the object built and what was
\* raised on the way.  hmac.update(undefined) throws a TypeError.
Parse(requestArguments, scheme, key) ==
    LET m0 == NewMessage(scheme, key) IN
    IF ~HasArg(requestArguments, 6)
    THEN [raised |-> "TypeError", msg |-> m0]
    ELSE LET signature == BufferToString(Arg(requestArguments, 2))
             ok == signature = ParseDigest(requestArguments, m0.scheme, m0.key)
             m1 == [m0 EXCEPT !.signature = String(signature),
                              !.signatureOK = IF ok THEN "true" ELSE "false"]
         IN IF ~ok THEN [raised |-> "none", msg |-> m1]
            ELSE ParseDecode(m1, requestArguments)

\* The header respond writes.
ResponseHeader(msg, messageType, msgId) ==
    Obj(<<KV("msg_id", Str(msgId)),
          KV("username", Get(msg.header, "username")),
          KV("session", Get(msg.header, "session")),
          KV("msg_type", Str(messageType))>>)

\* respond hashing the metadata before the parent header.
RespondDigestMetadataFirst(msg, header, parentHeader, metadata, content) ==
    HmacDigest(msg.scheme, msg.key,
               StringToBuffer(header) \o StringToBuffer(metadata)
               \o StringToBuffer(parentHeader) \o StringToBuffer(content))

\* The digest respond computes over the four strings it sends.
RespondDigest(msg, header, parentHeader, metadata, content) ==
    HmacDigest(msg.scheme, msg.key,
               StringToBuffer(header) \o StringToBuffer(parentHeader)
               \o StringToBuffer(metadata) \o StringToBuffer(content))

\* The frames msg.respond(socket, messageType, content) hands to socket.send.
\* The caller has checked that msg.header has properties.
RespondFrames(msg, messageType, content, msgId) ==
    LET header == Stringify(ResponseHeader(msg, messageType, msgId))
        parentHeader == Stringify(msg.header)
        metadata == Stringify(Obj(<<>>))
        body == Stringify(content)
    IN <<StringToBuffer(msg.idents.s), StringToBuffer(msg.delimiter.s),
         StringToBuffer(RespondDigest(msg, header, parentHeader, metadata, body)),
         StringToBuffer(header), StringToBuffer(parentHeader),
         StringToBuffer(metadata), StringToBuffer(body)>>

(***************************************************************************)
(* The kernel's state.                                                     *)
(*   config        this.config: the connection file, or the Message that   *)
(*                 took its place (clobbered)                              *)
(*   crashed       an exception left a listener or callback uncaught       *)
(*   sent          every socket.send so far; req and origin name the       *)
(*                 request whose respond made the send                     *)
(*   calls         every function called as a handler or lifecycle         *)
(*                 callback so far                                         *)
(*                 Both are kept per thread of control: what the socket    *)
(*                 listeners do ("listener") and what the callbacks of     *)
(*                 each session's tasks do.  Each log is in order; the     *)
(*                 order between the logs is not recorded.                 *)
(*   sessions      the session manager: per session its executionCount,    *)
(*                 its result, its queue of tasks, the stage of the first  *)
(*   incAt         when the session manager increments executionCount      *)
(*   warnings      the number of console.warn calls                        *)
(*   socketsCreated the number of zmq.createSocket calls                   *)
(*   bound         the sockets whose bind succeeded                        *)
(*   listening     the sockets that have a "message" listener              *)
(*   nArrivals     the number of messages the sockets delivered            *)
(*   lastEvent, lastArrival, lastMsg, lastRaised                           *)
(*                 the last event; when it is an arrival, the frames       *)
(*                 delivered, the Message built from them and what the     *)
(*                 listener raised                                         *)
(***************************************************************************)
VARIABLES config, crashed, sent, calls, sessions, incAt, warnings,
          socketsCreated, bound, listening, nArrivals, lastEvent, lastArrival,
          lastMsg, lastRaised

kernelVars == <<config, crashed, sent, calls, sessions, incAt, warnings,
                socketsCreated, bound, listening, nArrivals, lastEvent,
                lastArrival, lastMsg,
                lastRaised>>

\* The codec on its own: the frames last parsed (cIn) and the result (cMsg), the
\* Message respond was called on (cOrig) and the frames it sent (cOut).
VARIABLES cPhase, cIn, cMsg, cOrig, cOut

codecVars == <<cPhase, cIn, cMsg, cOrig, cOut>>

(***************************************************************************)
(* The state of the TypeScript kernel's start (kernel.js:348-691).         *)
(*   argv           process.argv.slice(2) as Parser.parse read it          *)
(*   configBuilder  the Configuration that Parser.parse builds and that    *)
(*                  the transpile function of its config goes on using     *)
(*   tsStatus       "start", "configured" (Parser.parse returned) or       *)
(*                  "exited" (process.exit(1))                             *)
(*   submitted      the code given to transpile, call by call, and whether *)
(*                  the compiler compiled it                               *)
(*   lastTranspile  the last call of transpile: what it found, what the    *)
(*                  compiler threw, what it returned or threw              *)
(*   kernelConfig   the KernelConfig that Parser.parse returned            *)
(***************************************************************************)
VARIABLES argv, configBuilder, kernelConfig, tsStatus, submitted, lastTranspile

tsVars == <<argv, configBuilder, kernelConfig, tsStatus, submitted, lastTranspile>>

SessionIds == {"s1", "s2"}

\* The properties Kernel.prototype has of its own, and those it inherits from
\* Object.prototype (the "in" operator sees both).
KernelPrototypeOwn == {"kernel_info_request", "execute_request", "constructor"}

ObjectPrototype == {"toString"}

InPrototype(name) == name \in KernelPrototypeOwn \cup ObjectPrototype

\* The property key a value turns into.
PropertyKey(value) == IF value.t = "string" THEN value.s ELSE value.t

\* object[name] for the objects a listener or callback has as "this": the
\* kernel has the three sockets, a socket has none of them.
Field(object, name) ==
    IF object = "kernel" /\ name \in {"shellSocket", "iopubSocket", "hbSocket"}
    THEN name
    ELSE "undefined"

\* "this" of a listener: what it was bound to, else the emitting socket.
ListenerThis(emitter, boundTo) == IF boundTo = "unbound" THEN emitter ELSE boundTo

\* The threads of control that send: the socket listeners, and the callbacks
\* of the tasks of each session.
Emitters == <<"listener", "s1", "s2">>

\* The number of the next send of an emitter; no two sends share a number.
SendNumber(emitter) ==
    (CHOOSE i \in DOMAIN Emitters : Emitters[i] = emitter)
    + Len(Emitters) * Len(sent[emitter])

\* uuid.v4(): an identifier no other send has.
Uuid(n) == "u" \o ToString(n)

\* One request.respond(socket, messageType, content), as send number n.
Send(task, socket, messageType, content, n) ==
    [socket |-> socket,
     frames |-> RespondFrames(task.request, messageType, content, Uuid(n)),
     req |-> task.req, origin |-> task.origin]

Call(fn, task, res) == [fn |-> fn, req |-> task.req, origin |-> task.origin, res |-> res]

ProtocolVersion == <<KV("", Num(4)), KV("", Num(1))>>

\* process.versions.node, split and parsed.
NodeVersion == <<KV("", Num(0)), KV("", Num(12))>>

\* kernel_info_request that announces the reply on the iopub socket as well.
KernelInfoRequestAlsoBroadcasts(task, n) ==
    <<Send(task, Field("kernel", "shellSocket"), "kernel_info_reply",
           Obj(<<KV("language", Str("javascript")),
                 KV("language_version", Arr(NodeVersion)),
                 KV("protocol_version", Arr(ProtocolVersion))>>), n),
      Send(task, Field("kernel", "iopubSocket"), "kernel_info_reply",
           Obj(<<KV("language", Str("javascript"))>>), n + 1)>>

\* Kernel.prototype.kernel_info_request
KernelInfoRequest(task, n) ==
    <<Send(task, Field("kernel", "shellSocket"), "kernel_info_reply",
           Obj(<<KV("language", Str("javascript")),
                 KV("language_version", Arr(NodeVersion)),
                 KV("protocol_version", Arr(ProtocolVersion))>>), n)>>

\* beforeRun that echoes the count after the one it reads.
BeforeRunNextCount(task, session, n) ==
    <<Send(task, Field("kernel", "iopubSocket"), "pyin",
           Obj(<<KV("execution_count", Num(session.executionCount + 1)),
                 KV("code", Get(task.request.content, "code"))>>), n)>>

\* beforeRun of execute_request
BeforeRun(task, session, n) ==
    <<Send(task, Field("kernel", "iopubSocket"), "pyin",
           Obj(<<KV("execution_count", Num(session.executionCount)),
                 KV("code", Get(task.request.content, "code"))>>), n)>>

\* afterRun that repeats the input echo.
AfterRunEchoes(task, session, n) ==
    <<Send(task, Field("kernel", "iopubSocket"), "pyin",
           Obj(<<KV("execution_count", Num(session.executionCount))>>), n)>>

\* afterRun of execute_request
AfterRun(task, session, n) == <<>>

\* onSuccess sending the output broadcast before the reply.
OnSuccessBroadcastFirst(task, session, n) ==
    <<Send(task, Field("kernel", "iopubSocket"), "pyout",
           Obj(<<KV("execution_count", Num(session.executionCount)),
                 KV("data", Get(session.result, "mime")),
                 KV("metadata", Obj(<<>>))>>), n),
      Send(task, Field("kernel", "shellSocket"), "execute_reply",
           Obj(<<KV("status", Str("ok")),
                 KV("execution_count", Num(session.executionCount)),
                 KV("payload", Arr(<<>>)),
                 KV("user_variables", Obj(<<>>)),
                 KV("user_expressions", Obj(<<>>))>>), n + 1)>>

\* onSuccess of execute_request
OnSuccess(task, session, n) ==
    <<Send(task, Field("kernel", "shellSocket"), "execute_reply",
           Obj(<<KV("status", Str("ok")),
                 KV("execution_count", Num(session.executionCount)),
                 KV("payload", Arr(<<>>)),
                 KV("user_variables", Obj(<<>>)),
                 KV("user_expressions", Obj(<<>>))>>), n),
      Send(task, Field("kernel", "iopubSocket"), "pyout",
           Obj(<<KV("execution_count", Num(session.executionCount)),
                 KV("data", Get(session.result, "mime")),
                 KV("metadata", Obj(<<>>))>>), n + 1)>>

\* onError whose broadcast carries the message in the place of the name.
OnErrorBroadcastsValueAsName(task, session, n) ==
    LET error == Get(session.result, "error") IN
    <<Send(task, Field("kernel", "shellSocket"), "execute_reply",
           Obj(<<KV("status", Str("error")),
                 KV("execution_count", Num(session.executionCount)),
                 KV("ename", Get(error, "ename")),
                 KV("evalue", Get(error, "evalue")),
                 KV("traceback", Get(error, "traceback"))>>), n),
      Send(task, Field("kernel", "iopubSocket"), "pyerr",
           Obj(<<KV("execution_count", Num(session.executionCount)),
                 KV("ename", Get(error, "evalue")),
                 KV("evalue", Get(error, "evalue")),
                 KV("traceback", Get(error, "traceback"))>>), n + 1)>>

\* onError whose reply has no execution_count.
OnErrorReplyWithoutCount(task, session, n) ==
    LET error == Get(session.result, "error") IN
    <<Send(task, Field("kernel", "shellSocket"), "execute_reply",
           Obj(<<KV("status", Str("error")),
                 KV("ename", Get(error, "ename")),
                 KV("evalue", Get(error, "evalue")),
                 KV("traceback", Get(error, "traceback"))>>), n),
      Send(task, Field("kernel", "iopubSocket"), "pyerr",
           Obj(<<KV("execution_count", Num(session.executionCount)),
                 KV("ename", Get(error, "ename")),
                 KV("evalue", Get(error, "evalue")),
                 KV("traceback", Get(error, "traceback"))>>), n + 1)>>

\* onError of execute_request
OnError(task, session, n) ==
    LET error == Get(session.result, "error") IN
    <<Send(task, Field("kernel", "shellSocket"), "execute_reply",
           Obj(<<KV("status", Str("error")),
                 KV("execution_count", Num(session.executionCount)),
                 KV("ename", Get(error, "ename")),
                 KV("evalue", Get(error, "evalue")),
                 KV("traceback", Get(error, "traceback"))>>), n),
      Send(task, Field("kernel", "iopubSocket"), "pyerr",
           Obj(<<KV("execution_count", Num(session.executionCount)),
                 KV("ename", Get(error, "ename")),
                 KV("evalue", Get(error, "evalue")),
                 KV("traceback", Get(error, "traceback"))>>), n + 1)>>

(***************************************************************************)
(* Kernel~_onMessage (kernel.js:97-114) as a function of the arrival: what *)
(* it raises, the Message it builds, the sends and calls it makes, the     *)
(* task it hands to the session manager, the warnings it prints, and       *)
(* whether it ran the Kernel constructor again.                            *)
(***************************************************************************)
Quiet(raised, msg) ==
    [raised |-> raised, msg |-> msg, sends |-> <<>>, calls |-> <<>>,
     tasks |-> <<>>, warn |-> 0, construct |-> FALSE]

\* Kernel.prototype.execute_request: reading request.content.code throws when
\* the content is null; else the task goes to this.sm.run.
ExecuteRequest(msg, task) ==
    IF ~HasProperties(msg.content)
    THEN [Quiet("TypeError", msg) EXCEPT !.calls = <<Call("execute_request", task, Undefined)>>]
    ELSE [Quiet("none", msg) EXCEPT !.calls = <<Call("execute_request", task, Undefined)>>,
                                    !.tasks = <<task>>]

\* prototype[msg_type].call(this, msg) for a msg_type that is in prototype.
CallHandler(name, msg, task, n) ==
    CASE name = "kernel_info_request" ->
            [Quiet("none", msg) EXCEPT !.calls = <<Call(name, task, Undefined)>>,
                                       !.sends = KernelInfoRequest(task, n)]
      [] name = "execute_request" -> ExecuteRequest(msg, task)
      [] name = "constructor" ->
            [Quiet("none", msg) EXCEPT !.calls = <<Call(name, task, Undefined)>>,
                                       !.construct = TRUE]
      [] OTHER -> [Quiet("none", msg) EXCEPT !.calls = <<Call(name, task, Undefined)>>]

\* The part of _onMessage after the signature check.
Dispatch(msg, task, n) ==
    IF ~HasProperties(msg.header) THEN Quiet("TypeError", msg)
    ELSE LET msg_type == PropertyKey(Get(msg.header, "msg_type")) IN
         IF InPrototype(msg_type) THEN CallHandler(msg_type, msg, task, n)
         ELSE [Quiet("none", msg) EXCEPT !.warn = 1]

\* this.config.signature_scheme.slice("hmac-".length)
SchemeOf(signature_scheme) == Tail(signature_scheme)

OnMessageOutcome(cfg, requestArguments, req, n) ==
    IF cfg.clobbered THEN Quiet("TypeError", NewMessage(<<>>, <<>>))
    ELSE LET p == Parse(requestArguments, SchemeOf(cfg.signature_scheme), cfg.key)
             task == [req |-> req, origin |-> requestArguments, request |-> p.msg]
         IN IF p.raised # "none" THEN Quiet(p.raised, p.msg)
            ELSE IF p.msg.signatureOK # "true" THEN Quiet("none", p.msg)
            ELSE Dispatch(p.msg, task, n)

\* this.sm.run(request.header.session, task)
SmRun(ss, tasks) ==
    IF tasks = <<>> THEN ss
    ELSE LET sid == PropertyKey(Get(tasks[1].request.header, "session")) IN
         [ss EXCEPT ![sid].queue = Append(@, tasks[1])]

\* A message arrives on the shell socket.
OnMessage(requestArguments) ==
    /\ ~crashed
    /\ "shellSocket" \in bound \cap listening
    /\ nArrivals < MaxArrivals
    /\ \E o \in {OnMessageOutcome(config, requestArguments, nArrivals + 1, SendNumber("listener"))} :
       \E bindThrows \in (IF o.construct THEN BOOLEAN ELSE {FALSE}) :
         /\ nArrivals' = nArrivals + 1
         /\ lastEvent' = "shell"
         /\ lastArrival' = requestArguments
         /\ lastMsg' = o.msg
         /\ lastRaised' = IF bindThrows THEN "Error" ELSE o.raised
         /\ crashed' = (bindThrows \/ o.raised # "none")
         /\ sent' = [sent EXCEPT !["listener"] = @ \o o.sends]
         /\ calls' = [calls EXCEPT !["listener"] = @ \o o.calls]
         /\ sessions' = SmRun(sessions, o.tasks)
         /\ warnings' = warnings + o.warn
         /\ socketsCreated' = socketsCreated + (IF o.construct THEN 3 ELSE 0)
         /\ config' = IF o.construct THEN [config EXCEPT !.clobbered = TRUE] ELSE config
         /\ UNCHANGED <<incAt, bound, listening>>
         /\ UNCHANGED codecVars
         /\ UNCHANGED tsVars

\* A message arrives on the heartbeat socket (kernel.js:124-126).  The listener
\* is not bound, so its "this" is the socket that emits the event.
OnHeartbeat(message) ==
    /\ ~crashed
    /\ "hbSocket" \in bound \cap listening
    /\ nArrivals < MaxArrivals
    /\ LET this == ListenerThis("hbSocket", "unbound")
           target == Field(this, "hbSocket")
       IN /\ nArrivals' = nArrivals + 1
          /\ lastEvent' = "heartbeat"
          /\ lastArrival' = <<message>>
          /\ lastMsg' = NewMessage(<<>>, <<>>)
          /\ IF target = "undefined"
             THEN /\ lastRaised' = "TypeError"
                  /\ crashed' = TRUE
                  /\ sent' = sent
             ELSE /\ lastRaised' = "none"
                  /\ crashed' = FALSE
                  /\ sent' = [sent EXCEPT !["listener"] =
                                 Append(@, [socket |-> target, frames |-> <<message>>,
                                            req |-> nArrivals + 1,
                                            origin |-> <<message>>])]
          /\ UNCHANGED <<config, calls, sessions, incAt, warnings, socketsCreated,
                         bound, listening>>
          /\ UNCHANGED codecVars
          /\ UNCHANGED tsVars

(***************************************************************************)
(* new Kernel(ipythonConfig): the three sockets are created, then          *)
(*   shellSocket.bind, shellSocket.on("message"), iopubSocket.bind,        *)
(*   hbSocket.bind, hbSocket.on("message")                                 *)
(* in this order.  bind is given no callback and is in no try block, and   *)
(* no socket has an "error" listener.  A bind that does not succeed either *)
(* throws, which ends the constructor and the process, or reports the      *)
(* failure to the callback it was not given ("unreported"): which of the   *)
(* two is up to the zmq binding.                                           *)
(***************************************************************************)
Sockets == {"shellSocket", "iopubSocket", "hbSocket"}

BindOutcomes == {"bound", "throws", "unreported"}

Construct(outcome) ==
    IF outcome["shellSocket"] = "throws"
    THEN [raised |-> "Error", bound |-> {}, listening |-> {}]
    ELSE LET b1 == IF outcome["shellSocket"] = "bound" THEN {"shellSocket"} ELSE {}
             l1 == {"shellSocket"}
         IN IF outcome["iopubSocket"] = "throws"
            THEN [raised |-> "Error", bound |-> b1, listening |-> l1]
            ELSE LET b2 == b1 \cup (IF outcome["iopubSocket"] = "bound"
                                    THEN {"iopubSocket"} ELSE {})
                 IN IF outcome["hbSocket"] = "throws"
                    THEN [raised |-> "Error", bound |-> b2, listening |-> l1]
                    ELSE [raised |-> "none",
                          bound |-> b2 \cup (IF outcome["hbSocket"] = "bound"
                                             THEN {"hbSocket"} ELSE {}),
                          listening |-> l1 \cup {"hbSocket"}]

\* The process constructs its kernel (kernel.js:347); an exception thrown by
\* the constructor is caught by nothing.
KernelConstruct(outcome) ==
    /\ ~crashed
    /\ socketsCreated = 0
    /\ \E k \in {Construct(outcome)} :
          /\ bound' = k.bound
          /\ listening' = k.listening
          /\ lastRaised' = k.raised
          /\ crashed' = (k.raised # "none")
    /\ socketsCreated' = 3
    /\ lastEvent' = "startup"
    /\ UNCHANGED <<config, sent, calls, sessions, incAt, warnings, nArrivals,
                   lastArrival, lastMsg>>
    /\ UNCHANGED codecVars
    /\ UNCHANGED tsVars

(***************************************************************************)
(* The session manager (sm.js, not part of the sources at hand).  It runs  *)
(* the tasks of a session one after the other: beforeRun, then afterRun,   *)
(* then exactly one of onSuccess and onError.  It increments               *)
(* executionCount once per attempt, either when the attempt starts or when *)
(* it completes.  A crashed process runs nothing.                          *)
(***************************************************************************)
MimeResults == {Obj(<<KV("mime", Obj(<<KV("text/plain", Str("2"))>>))>>)}

ErrorResults ==
    {Obj(<<KV("error", Obj(<<KV("ename", Str("Error")),
                             KV("evalue", Str("boom")),
                             KV("traceback", Arr(<<KV("", Str("boom"))>>))>>))>>)}

Bump(session, at) ==
    IF incAt = at THEN [session EXCEPT !.executionCount = @ + 1] ELSE session

\* The last event is a callback of the session manager, not an arrival.
EngineEvent ==
    /\ lastEvent' = "engine"
    /\ lastArrival' = <<>>
    /\ lastMsg' = NewMessage(<<>>, <<>>)
    /\ lastRaised' = "none"

EngineBeforeRun(sid) ==
    /\ ~crashed
    /\ sessions[sid].queue # <<>>
    /\ sessions[sid].stage = "idle"
    /\ LET task == Head(sessions[sid].queue)
           session == Bump(sessions[sid], "start")
       IN /\ sent' = [sent EXCEPT ![sid] = @ \o BeforeRun(task, session, SendNumber(sid))]
          /\ calls' = [calls EXCEPT ![sid] = Append(@, Call("beforeRun", task, session.result))]
          /\ sessions' = [sessions EXCEPT ![sid] = [session EXCEPT !.stage = "running"]]
    /\ EngineEvent
    /\ UNCHANGED <<config, crashed, incAt, warnings, socketsCreated, bound,
                   listening, nArrivals>>
    /\ UNCHANGED codecVars
    /\ UNCHANGED tsVars

EngineAfterRun(sid) ==
    /\ ~crashed
    /\ sessions[sid].queue # <<>>
    /\ sessions[sid].stage = "running"
    /\ LET task == Head(sessions[sid].queue)
           session == sessions[sid]
       IN /\ sent' = [sent EXCEPT ![sid] = @ \o AfterRun(task, session, SendNumber(sid))]
          /\ calls' = [calls EXCEPT ![sid] = Append(@, Call("afterRun", task, session.result))]
          /\ sessions' = [sessions EXCEPT ![sid].stage = "ran"]
    /\ EngineEvent
    /\ UNCHANGED <<config, crashed, incAt, warnings, socketsCreated, bound,
                   listening, nArrivals>>
    /\ UNCHANGED codecVars
    /\ UNCHANGED tsVars

EngineSuccess(sid, result) ==
    /\ ~crashed
    /\ sessions[sid].queue # <<>>
    /\ sessions[sid].stage = "ran"
    /\ LET task == Head(sessions[sid].queue)
           session == [Bump(sessions[sid], "complete") EXCEPT !.result = result]
       IN /\ sent' = [sent EXCEPT ![sid] = @ \o OnSuccess(task, session, SendNumber(sid))]
          /\ calls' = [calls EXCEPT ![sid] = Append(@, Call("onSuccess", task, session.result))]
          /\ sessions' = [sessions EXCEPT ![sid] =
                            [session EXCEPT !.stage = "idle", !.queue = Tail(@)]]
    /\ EngineEvent
    /\ UNCHANGED <<config, crashed, incAt, warnings, socketsCreated, bound,
                   listening, nArrivals>>
    /\ UNCHANGED codecVars
    /\ UNCHANGED tsVars

EngineError(sid, result) ==
    /\ ~crashed
    /\ sessions[sid].queue # <<>>
    /\ sessions[sid].stage = "ran"
    /\ LET task == Head(sessions[sid].queue)
           session == [Bump(sessions[sid], "complete") EXCEPT !.result = result]
       IN /\ sent' = [sent EXCEPT ![sid] = @ \o OnError(task, session, SendNumber(sid))]
          /\ calls' = [calls EXCEPT ![sid] = Append(@, Call("onError", task, session.result))]
          /\ sessions' = [sessions EXCEPT ![sid] =
                            [session EXCEPT !.stage = "idle", !.queue = Tail(@)]]
    /\ EngineEvent
    /\ UNCHANGED <<config, crashed, incAt, warnings, socketsCreated, bound,
                   listening, nArrivals>>
    /\ UNCHANGED codecVars
    /\ UNCHANGED tsVars

(***************************************************************************)
(* What arrives.  A client builds the frames of a request; the signature   *)
(* frame is the digest under the configured key, or empty.                 *)
(***************************************************************************)
ConfigKeys == {<<>>, <<"k">>}

SignatureScheme == <<"hmac-", "sha256">>

Delimiter == <<"<IDS|MSG>">>

EmptyObject == <<"{", "}">>

Malformed == <<"{">>

MsgTypes == {"kernel_info_request", "execute_request", "nonexistent_request",
             "constructor", "toString"}

RequestHeader(msg_type, session) ==
    Obj(<<KV("msg_id", Str(session \o "-m1")), KV("username", Str(session \o "-user")),
          KV("session", Str(session)), KV("msg_type", Str(msg_type))>>)

CodeContent == Stringify(Obj(<<KV("code", Str("1+1"))>>))

\* The frames on the wire: identities, delimiter, signature, the four signed
\* frames, and what follows them.
Wire(idents, signature, header, parentHeader, metadata, content, rest) ==
    idents \o <<Delimiter, signature, header, parentHeader, metadata, content>> \o rest

ClientDigest(key, header, parentHeader, metadata, content) ==
    HmacDigest(SchemeOf(SignatureScheme), key,
               header \o parentHeader \o metadata \o content)

\* The requests that arrive, as identities, header and content: a request of
\* every type, an execute request of a second session and user whose identity
\* frame holds a byte that is no UTF-8, execute requests with a content that
\* is null or no JSON, requests whose header is null or no JSON, and a
\* request without an identity frame.
RequestShapes ==
    {<<<<<<"id">>>>, Stringify(RequestHeader(t, "s1")), CodeContent>> : t \in MsgTypes}
    \cup {<<<<<<"xFF", "2">>>>, Stringify(RequestHeader("execute_request", "s2")), CodeContent>>}
    \cup {<<<<<<"id">>>>, Stringify(RequestHeader("execute_request", "s1")), c>> :
             c \in {<<"null">>, Malformed}}
    \cup {<<<<<<"id">>>>, h, CodeContent>> : h \in {<<"null">>, Malformed}}
    \cup {<<<<>>, Stringify(RequestHeader("execute_request", "s1")), CodeContent>>}

\* The arrivals on the shell socket, for each configured key: every request
\* with the digest under that key as its signature, and with an empty one.
ShellArrivals ==
    [key \in ConfigKeys |->
        {Wire(r[1], ClientDigest(key, r[2], EmptyObject, EmptyObject, r[3]),
              r[2], EmptyObject, EmptyObject, r[3], <<>>) : r \in RequestShapes}
        \cup {Wire(r[1], <<>>, r[2], EmptyObject, EmptyObject, r[3], <<>>) :
                 r \in RequestShapes}]

HeartbeatPayloads == {<<>>, <<"ping">>, <<"xFF", "{">>}

\* The process has read its connection file and has no kernel yet.
Loaded ==
    /\ config \in {[clobbered |-> FALSE, signature_scheme |-> SignatureScheme,
                    key |-> k] : k \in ConfigKeys}
    /\ crashed = FALSE
    /\ sent = [e \in {"listener"} \cup SessionIds |-> <<>>]
    /\ calls = [e \in {"listener"} \cup SessionIds |-> <<>>]
    /\ sessions = [sid \in SessionIds |->
                      [executionCount |-> 0, result |-> Undefined,
                       queue |-> <<>>, stage |-> "idle"]]
    /\ incAt \in {"start", "complete"}
    /\ warnings = 0
    /\ nArrivals = 0
    /\ lastEvent = "none"
    /\ lastArrival = <<>>
    /\ lastMsg = NewMessage(<<>>, <<>>)
    /\ lastRaised = "none"

StartupInit ==
    /\ Loaded
    /\ socketsCreated = 0
    /\ bound = {}
    /\ listening = {}

\* The kernel as its constructor leaves it when every bind succeeds.
KernelInit ==
    /\ Loaded
    /\ socketsCreated = 3
    /\ \E k \in {Construct([socket \in Sockets |-> "bound"])} :
          /\ bound = k.bound
          /\ listening = k.listening

(***************************************************************************)
(* The codec on its own: parse applied to frames, respond applied to the   *)
(* Message parse built, and parse applied to what respond sent, as it was  *)
(* sent, with one byte of a signed frame replaced, or with one byte moved  *)
(* from a signed frame to the next one.                                    *)
(***************************************************************************)
MaxIdents == 2

Idents(k) == [i \in 1..k |-> <<"id", NumTok[i + 1]>>]

CodecHeaderFrames ==
    {Stringify(RequestHeader("execute_request", "s1")), <<"null">>, Malformed}

CodecContentFrames ==
    {CodeContent,
     Stringify(Obj(<<KV("code", Str("xFF"))>>)), Malformed}

CodecArrivals ==
    [key \in ConfigKeys |->
        {Wire(Idents(k), sig, h, EmptyObject, EmptyObject, c, rest) :
            k \in 0..MaxIdents, sig \in {<<>>},
            h \in CodecHeaderFrames, c \in CodecContentFrames,
            rest \in {<<>>, <<<<"blob">>>>}}
        \cup {Wire(Idents(k), ClientDigest(key, h, EmptyObject, EmptyObject, c),
                   h, EmptyObject, EmptyObject, c, rest) :
            k \in 0..MaxIdents,
            h \in CodecHeaderFrames, c \in CodecContentFrames,
            rest \in {<<>>, <<<<"blob">>>>}}]

ResponseTypes == {"execute_reply", "pyin"}

ResponseContents(msg) ==
    {Obj(<<>>),
     Obj(<<KV("status", Str("ok")), KV("execution_count", Num(1))>>),
     Obj(<<KV("execution_count", Num(0)), KV("code", Get(msg.content, "code"))>>)}

TamperBytes == {"x", "xFF"}

NothingParsed == [raised |-> "none", msg |-> NewMessage(<<>>, <<>>)]

CodecInit ==
    /\ cPhase = "start"
    /\ cIn = <<>>
    /\ cMsg = NothingParsed
    /\ cOrig = NewMessage(<<>>, <<>>)
    /\ cOut = <<>>

ConfiguredParse(requestArguments) ==
    Parse(requestArguments, SchemeOf(config.signature_scheme), config.key)

\* new Message(requestArguments, scheme, key)
CodecParse(requestArguments) ==
    /\ cPhase = "start"
    /\ cPhase' = "parsed"
    /\ cIn' = requestArguments
    /\ cMsg' = ConfiguredParse(requestArguments)
    /\ UNCHANGED <<cOrig, cOut>>
    /\ UNCHANGED kernelVars
    /\ UNCHANGED tsVars

\* msg.respond(socket, messageType, content) on the Message just parsed;
\* reading this.header.username throws when the header has no properties.
CodecRespond(messageType, content) ==
    /\ cPhase = "parsed"
    /\ cMsg.raised = "none"
    /\ cMsg.msg.signatureOK = "true"
    /\ IF HasProperties(cMsg.msg.header)
       THEN /\ cPhase' = "responded"
            /\ cOut' = RespondFrames(cMsg.msg, messageType, content, Uuid(1))
       ELSE /\ cPhase' = "respond raised"
            /\ cOut' = cOut
    /\ cOrig' = cMsg.msg
    /\ UNCHANGED <<cIn, cMsg>>
    /\ UNCHANGED kernelVars
    /\ UNCHANGED tsVars

\* The frames respond sent are parsed with the same scheme and key.
CodecReceive ==
    /\ cPhase = "responded"
    /\ cPhase' = "received"
    /\ cIn' = cOut
    /\ cMsg' = ConfiguredParse(cOut)
    /\ UNCHANGED <<cOrig, cOut>>
    /\ UNCHANGED kernelVars
    /\ UNCHANGED tsVars

\* The frames of a message whose signature parse accepts: what a client sent
\* or what respond sent.
CodecSigned ==
    IF cPhase = "responded" THEN cOut
    ELSE IF cPhase = "parsed" /\ cMsg.msg.signatureOK = "true" THEN cIn
    ELSE <<>>

\* Byte j of frame i (one of the four frames parse hashes, requestArguments[3]
\* to requestArguments[6], counted from 1 here) is replaced by b, and the
\* frames are parsed.
CodecTamper(i, j, b) ==
    /\ CodecSigned # <<>>
    /\ i \in 4..7
    /\ j \in DOMAIN CodecSigned[i]
    /\ b # CodecSigned[i][j]
    /\ \E tampered \in {[CodecSigned EXCEPT ![i][j] = b]} :
         /\ cIn' = tampered
         /\ cMsg' = ConfiguredParse(tampered)
    /\ cPhase' = IF cPhase = "responded" THEN "tampered response" ELSE "tampered request"
    /\ UNCHANGED <<cOrig, cOut>>
    /\ UNCHANGED kernelVars
    /\ UNCHANGED tsVars

\* One byte crosses the boundary between frame i and frame i + 1 of the four
\* frames parse hashes: the last byte of frame i goes to the front of frame
\* i + 1 ("right"), or the first byte of frame i + 1 to the end of frame i
\* ("left").  The signature frame is left as it is, and the frames are parsed.
ShiftDirections == {"left", "right"}

ShiftFrames(frames, i, direction) ==
    IF direction = "right"
    THEN [frames EXCEPT ![i] = SubSeq(@, 1, Len(@) - 1),
                        ![i + 1] = <<frames[i][Len(frames[i])]>> \o @]
    ELSE [frames EXCEPT ![i] = Append(@, frames[i + 1][1]),
                        ![i + 1] = Tail(@)]

CodecShift(i, direction) ==
    /\ CodecSigned # <<>>
    /\ i \in 4..6
    /\ (IF direction = "right" THEN CodecSigned[i] ELSE CodecSigned[i + 1]) # <<>>
    /\ \E shifted \in {ShiftFrames(CodecSigned, i, direction)} :
         /\ cIn' = shifted
         /\ cMsg' = ConfiguredParse(shifted)
    /\ cPhase' = IF cPhase = "responded" THEN "shifted response" ELSE "shifted request"
    /\ UNCHANGED <<cOrig, cOut>>
    /\ UNCHANGED kernelVars
    /\ UNCHANGED tsVars

(***************************************************************************)
(* The TypeScript kernel's start (kernel.js:348-691).  A string is a       *)
(* sequence of pieces; the first two pieces of a command-line argument are *)
(* its first two characters.  A text of several lines is the sequence of   *)
(* its lines.                                                              *)
(***************************************************************************)
TScode ==
    <<"declare var $$async$$: boolean;", "declare var $$done$$: any;",
      "declare var $$: any;">>

\* new Configuration()
NewConfiguration ==
    [_onDebug |-> FALSE, _onTypeChk |-> FALSE, _workingDir |-> <<"cwd">>,
     hideUndefined |-> FALSE, protocolVer |-> <<"5", ".", "0">>,
     runningHistory |-> <<TScode>>, compiledLength |-> 0,
     isConnSet |-> FALSE, conn |-> <<>>, response |-> "undefined",
     _startupScript |-> <<>>]

\* arg.slice(2).split("="): the name is what precedes the first "=", and
\* values.join("=") is what follows it.
Slice(str, from) == SubSeq(str, from + 1, Len(str))

HasEquals(str) == \E i \in DOMAIN str : str[i] = "="

FirstEquals(str) == CHOOSE i \in DOMAIN str : str[i] = "=" /\ \A j \in 1..(i - 1) : str[j] # "="

ArgName(arg) ==
    LET rest == Slice(arg, 2)
    IN IF HasEquals(rest) THEN SubSeq(rest, 1, FirstEquals(rest) - 1) ELSE rest

ArgValue(arg) ==
    LET rest == Slice(arg, 2)
    IN IF HasEquals(rest) THEN Slice(rest, FirstEquals(rest)) ELSE <<>>

\* set protocolVersion(ver): parseInt of what precedes the first "." decides
\* the shape of the kernel_info reply; parseInt of no digits is NaN.
SetProtocolVersion(cb, ver) ==
    LET isNumber == ver # <<>> /\ IsNumTok(ver[1])
    IN [cb EXCEPT !.protocolVer = ver,
                  !.response = IF isNumber /\ NumOfTok(ver[1]) <= 4
                               THEN "language" ELSE "language_info"]

\* hideUndef()
HideUndef(cb) == [cb EXCEPT !.hideUndefined = TRUE]

\* showUndef()
ShowUndef(cb) == [cb EXCEPT !.hideUndefined = TRUE]

\* One turn of the loop of Parser.parse.  Setting connectionWith a second
\* time ends the process (Logger.throwAndExit).
ParseArg(b, arg) ==
    LET name == ArgName(arg)
        cb == b.cb
    IN IF b.exited THEN b
       ELSE IF name = <<"debug">>
            THEN [b EXCEPT !.cb = [cb EXCEPT !._onDebug = TRUE], !.verbose = TRUE]
       ELSE IF name = <<"semantic">>
            THEN [b EXCEPT !.cb = [cb EXCEPT !._onTypeChk = TRUE]]
       ELSE IF name = <<"hide-undefined">> THEN [b EXCEPT !.cb = HideUndef(cb)]
       ELSE IF name = <<"protocol">>
            THEN [b EXCEPT !.cb = SetProtocolVersion(cb, ArgValue(arg))]
       ELSE IF name = <<"session-working-dir">>
            THEN [b EXCEPT !.cb = [cb EXCEPT !._workingDir = ArgValue(arg)]]
       ELSE IF name = <<"show-undefined">> THEN [b EXCEPT !.cb = ShowUndef(cb)]
       ELSE IF name = <<"startup-script">>
            THEN [b EXCEPT !.cb = [cb EXCEPT !._startupScript = ArgValue(arg)]]
       ELSE IF cb.isConnSet THEN [b EXCEPT !.exited = TRUE, !.usage = TRUE]
       ELSE [b EXCEPT !.cb = [cb EXCEPT !.isConnSet = TRUE, !.conn = arg]]

RECURSIVE ParseArgs(_, _)
ParseArgs(b, args) ==
    IF args = <<>> THEN b ELSE ParseArgs(ParseArg(b, Head(args)), Tail(args))

NoKernelConfig ==
    [cwd |-> <<>>, hideUndefined |-> FALSE, protocolVersion |-> <<>>,
     debug |-> FALSE, kernelInfoReply |-> "undefined", startupScript |-> <<>>,
     connection |-> <<>>, made |-> FALSE]

\* get config(): without a connection file the process ends.
GetConfig(cb) ==
    [cwd |-> cb._workingDir, hideUndefined |-> cb.hideUndefined,
     protocolVersion |-> cb.protocolVer, debug |-> cb._onDebug,
     kernelInfoReply |-> cb.response, startupScript |-> cb._startupScript,
     connection |-> cb.conn, made |-> TRUE]

\* Parser.parse()
ParserParse(args) ==
    /\ tsStatus = "start"
    /\ argv' = args
    /\ LET b == ParseArgs([cb |-> NewConfiguration, exited |-> FALSE,
                           verbose |-> FALSE, usage |-> FALSE], args)
       IN /\ configBuilder' = b.cb
          /\ IF b.exited \/ ~b.cb.isConnSet
             THEN tsStatus' = "exited" /\ kernelConfig' = NoKernelConfig
             ELSE tsStatus' = "configured" /\ kernelConfig' = GetConfig(b.cb)
    /\ UNCHANGED <<submitted, lastTranspile>>
    /\ UNCHANGED kernelVars
    /\ UNCHANGED codecVars

(***************************************************************************)
(* transpile, the function of the KernelConfig that compiles the code of   *)
(* an execution request together with all the code compiled before it.    *)
(* The compiler (typescript-simple) is not part of the kernel: it returns  *)
(* the JavaScript of its input or throws an Error whose message has one    *)
(* line per diagnostic, "L<line>: <text>" for a diagnostic of the input    *)
(* and the bare text for a diagnostic of the compiler options.             *)
(***************************************************************************)
\* lines.join("\n"), as the lines of the text
JoinLines(units) ==
    IF units = <<>> THEN <<>>
    ELSE LET RECURSIVE Cat(_)
             Cat(i) == IF i > Len(units) THEN <<>> ELSE units[i] \o Cat(i + 1)
         IN Cat(1)

\* The JavaScript of the lines: a declaration emits nothing.
Emit(lines) ==
    SelectSeq(lines, LAMBDA l : \A i \in DOMAIN TScode : l # TScode[i])

CodeUnits == {<<"let a = 1;">>, <<"let b = ;">>}

OptionsDiagnostic == <<"Option 'sourceMap' cannot be specified with option 'inlineSourceMap'.">>

\* What the compiler does with the source whose last lines are the code.
Compilations(source, code) ==
    LET syntax == <<"L", NumTok[Len(source)], ": ", "Expression expected.">>
    IN IF code = <<"let a = 1;">>
       THEN {[ok |-> TRUE, compiled |-> Emit(source), name |-> "", message |-> <<>>],
             [ok |-> FALSE, compiled |-> <<>>, name |-> "Error",
              message |-> <<OptionsDiagnostic>>]}
       ELSE {[ok |-> FALSE, compiled |-> <<>>, name |-> "Error",
              message |-> <<syntax>>],
             [ok |-> FALSE, compiled |-> <<>>, name |-> "Error",
              message |-> <<OptionsDiagnostic, syntax>>]}

\* line.match(/^L([0-9]+): /) is null when the line does not start so.
Matches(line) ==
    /\ Len(line) >= 3
    /\ line[1] = "L"
    /\ IsNumTok(line[2])
    /\ line[3] = ": "

\* The line with its number counted from the first line of the code.
Renumber(line, lines) ==
    IF NumOfTok(line[2]) - lines + 1 \in 0..(Len(NumTok) - 1)
    THEN <<"\tLine ", NumTok[NumOfTok(line[2]) - lines + 2], ": ">> \o Slice(line, 3)
    ELSE <<"\tLine ", "-", ": ">> \o Slice(line, 3)

\* The catch clause of transpile: reading number.length of a line that does
\* not match throws a TypeError; otherwise a new Error with the name of the
\* error caught is thrown.
Rethrown(e, runningHistory) ==
    LET lines == Len(JoinLines(runningHistory))
    IN IF \E i \in DOMAIN e.message : ~Matches(e.message[i])
       THEN [constructor |-> "TypeError", name |-> "TypeError",
             message |-> <<<<"Cannot read property 'length' of null">>>>]
       ELSE [constructor |-> "Error", name |-> e.name,
             message |-> [i \in DOMAIN e.message |-> Renumber(e.message[i], lines)]]

NothingThrown == [constructor |-> "", name |-> "", message |-> <<>>]

NoTranspile ==
    [code |-> <<>>, result |-> [ok |-> TRUE, compiled |-> <<>>, name |-> "", message |-> <<>>],
     runningHistory |-> <<>>, compiledLength |-> 0, returned |-> <<>>,
     thrown |-> NothingThrown]

MaxUnits == 2

\* config.transpile(code), the compiler answering with result
Transpile(code, result) ==
    /\ tsStatus = "configured"
    /\ Len(submitted) < MaxUnits
    /\ submitted' = Append(submitted, [code |-> code, compiled |-> result.ok])
    /\ LET before == [NoTranspile EXCEPT
                         !.code = code, !.result = result,
                         !.runningHistory = configBuilder.runningHistory,
                         !.compiledLength = configBuilder.compiledLength]
       IN IF result.ok
          THEN /\ configBuilder' =
                     [configBuilder EXCEPT
                         !.runningHistory = Append(@, code),
                         !.compiledLength = Len(result.compiled)]
               /\ lastTranspile' =
                     [before EXCEPT
                         !.returned = Slice(result.compiled, configBuilder.compiledLength)]
          ELSE /\ configBuilder' = configBuilder
               /\ lastTranspile' =
                     [before EXCEPT
                         !.thrown = Rethrown(result, configBuilder.runningHistory)]
    /\ UNCHANGED <<argv, kernelConfig, tsStatus>>
    /\ UNCHANGED kernelVars
    /\ UNCHANGED codecVars

\* The arguments of the command line: every option, and a connection file.
Args ==
    {<<"-", "-", "debug">>, <<"-", "-", "semantic">>,
     <<"-", "-", "hide-undefined">>, <<"-", "-", "show-undefined">>,
     <<"-", "-", "protocol", "=", "4", ".", "1">>,
     <<"-", "-", "session-working-dir", "=", "/w">>,
     <<"-", "-", "startup-script", "=", "a", "=", "b.ts">>,
     <<"c", "o", "nn.json">>}

MaxArgs == 2

Argvs == UNION {[1..n -> Args] : n \in 0..MaxArgs}

TsInit ==
    /\ argv = <<>>
    /\ configBuilder = NewConfiguration
    /\ kernelConfig = NoKernelConfig
    /\ tsStatus = "start"
    /\ submitted = <<>>
    /\ lastTranspile = NoTranspile

NextTs ==
    \/ \E args \in Argvs : ParserParse(args)
    \/ \E code \in CodeUnits :
          \E result \in Compilations(JoinLines(configBuilder.runningHistory) \o code, code) :
             Transpile(code, result)

Init == KernelInit /\ CodecInit /\ TsInit

Next ==
    \/ \E a \in ShellArrivals[config.key] : OnMessage(a)
    \/ \E b \in HeartbeatPayloads : OnHeartbeat(b)
    \/ \E sid \in SessionIds : EngineBeforeRun(sid)
    \/ \E sid \in SessionIds : EngineAfterRun(sid)
    \/ \E sid \in SessionIds, r \in MimeResults : EngineSuccess(sid, r)
    \/ \E sid \in SessionIds, r \in ErrorResults : EngineError(sid, r)

NextCodec ==
    \/ \E a \in CodecArrivals[config.key] : CodecParse(a)
    \/ \E t \in ResponseTypes : \E c \in ResponseContents(cMsg.msg) : CodecRespond(t, c)
    \/ CodecReceive
    \/ \E i \in 4..7, j \in 1..64, b \in TamperBytes : CodecTamper(i, j, b)
    \/ \E i \in 4..6, direction \in ShiftDirections : CodecShift(i, direction)

\* The kernel from the start of the process on, whatever the binds do.
NextStartup ==
    \/ \E outcome \in [Sockets -> BindOutcomes] : KernelConstruct(outcome)
    \/ Next

vars == <<kernelVars, codecVars, tsVars>>

Spec == Init /\ [][Next]_vars

SpecCodec == Init /\ [][NextCodec]_vars

SpecTs == Init /\ [][NextTs]_vars

\* The process before new Kernel(ipythonConfig).
InitStartup == StartupInit /\ CodecInit /\ TsInit

SpecStartup == InitStartup /\ [][NextStartup]_vars

\* The session manager goes on as long as a task has a callback to be called.
EngineStep ==
    \/ \E sid \in SessionIds : EngineBeforeRun(sid)
    \/ \E sid \in SessionIds : EngineAfterRun(sid)
    \/ \E sid \in SessionIds, r \in MimeResults : EngineSuccess(sid, r)
    \/ \E sid \in SessionIds, r \in ErrorResults : EngineError(sid, r)

\* The enabling condition of EngineStep: a task is queued in a live process
\* (every stage of a session has an engine action of its own).
EngineEnabled ==
    /\ ~crashed
    /\ \E sid \in SessionIds : sessions[sid].queue # <<>>

EngineEnabledIsEnabled == EngineEnabled <=> ENABLED <<EngineStep>>_vars

\* Weak fairness of EngineStep, WF_vars(EngineStep), written out with
\* EngineEnabled for ENABLED <<EngineStep>>_vars.
EngineFairness == []<>~EngineEnabled \/ []<><<EngineStep>>_vars

SpecLive == Init /\ [][Next]_vars /\ EngineFairness

(***************************************************************************)
(* What the logs say about a request and about a send.                     *)
(***************************************************************************)
\* The logs laid end to end.  All sends of a request are in one log, and so
\* are all replies of a session; the call of a handler is in the listeners'
\* log, before the callbacks of its task.
AllSent == sent["listener"] \o sent["s1"] \o sent["s2"]

AllCalls == calls["listener"] \o calls["s1"] \o calls["s2"]

SentFor(r) == SelectSeq(AllSent, LAMBDA m : m.req = r)

CallsFor(r) == SelectSeq(AllCalls, LAMBDA c : c.req = r)

Names(cs) == [i \in DOMAIN cs |-> cs[i].fn]

Lifecycle(r) == Names(CallsFor(r))

Range(log) == {log[i] : i \in DOMAIN log}

EverySend == Range(sent["listener"]) \cup Range(sent["s1"]) \cup Range(sent["s2"])

EveryCall == Range(calls["listener"]) \cup Range(calls["s1"]) \cup Range(calls["s2"])

SentHeader(m) == JSONparse(BufferToString(m.frames[4]))

SentParent(m) == JSONparse(BufferToString(m.frames[5]))

SentContent(m) == JSONparse(BufferToString(m.frames[7]))

SentType(m) == Get(SentHeader(m), "msg_type").s

\* The header and content frames of an arrival with one identity frame.
ArrivalHeader(frames) == JSONparse(BufferToString(frames[4]))

ArrivalContent(frames) == JSONparse(BufferToString(frames[7]))

ConfiguredDigest(frames) ==
    ParseDigest(frames, SchemeOf(SignatureScheme), config.key)

\* The arrival has no signature frame equal to the tag recomputed over its
\* four signed frames.
Unauthenticated(frames) ==
    Len(frames) < 7 \/ BufferToString(frames[3]) # ConfiguredDigest(frames)

TagMismatch(frames) ==
    Len(frames) >= 7 /\ BufferToString(frames[3]) # ConfiguredDigest(frames)

NothingDoneForLastArrival ==
    /\ \A c \in EveryCall : c.req # nArrivals
    /\ \A m \in EverySend : m.req # nArrivals
    /\ \A sid \in SessionIds : \A i \in DOMAIN sessions[sid].queue :
          sessions[sid].queue[i].req # nArrivals

(***************************************************************************)
(* C1.  Dispatch safety: an arrival on the shell socket whose signature    *)
(* frame is not the recomputed tag, whatever its msg_type, has no function *)
(* called as its handler, no task handed to the session manager and no     *)
(* frame sent on any socket; and every message respond ever sends has as   *)
(* its parentHeader the header of an arrival whose tag matched.            *)
(***************************************************************************)
C1_DispatchSafety ==
    /\ (lastEvent = "shell" /\ Unauthenticated(lastArrival)) => NothingDoneForLastArrival
    /\ \A c \in EveryCall : ~Unauthenticated(c.origin)
    /\ \A m \in EverySend :
          m.socket # "hbSocket" =>
             /\ ~Unauthenticated(m.origin)
             /\ SentParent(m) = ArrivalHeader(m.origin)

\* An execute_request with an empty signature frame has just been dropped,
\* after an earlier request was answered.
C1_Witness ==
    /\ lastEvent = "shell"
    /\ TagMismatch(lastArrival)
    /\ Get(ArrivalHeader(lastArrival), "msg_type") = Str("execute_request")
    /\ lastRaised = "none"
    /\ EverySend # {}

(***************************************************************************)
(* C2.  Heartbeat echo: after a payload arrived on the heartbeat socket,   *)
(* the listener has sent exactly that payload on the heartbeat socket and  *)
(* has raised nothing.                                                     *)
(***************************************************************************)
C2_HeartbeatEcho ==
    lastEvent = "heartbeat" =>
       /\ lastRaised = "none"
       /\ sent["listener"] # <<>>
       /\ sent["listener"][Len(sent["listener"])].socket = "hbSocket"
       /\ sent["listener"][Len(sent["listener"])].frames = lastArrival

(***************************************************************************)
(* C3.  Empty-key mode: with an empty key, parse sets signatureOK to true  *)
(* for every well-formed message, whatever its signature frame.            *)
(***************************************************************************)
WellFormed(frames) ==
    /\ Len(frames) \in {7, 8}
    /\ frames[2] = Delimiter
    /\ JSONparseOK(BufferToString(frames[4]))
    /\ JSONparseOK(BufferToString(frames[5]))
    /\ JSONparseOK(BufferToString(frames[7]))

C3_EmptyKeyMode ==
    (cPhase = "parsed" /\ config.key = <<>> /\ WellFormed(cIn)) =>
       cMsg.msg.signatureOK = "true"

(***************************************************************************)
(* C4.  Unknown type handled: an authenticated arrival whose msg_type is a *)
(* string other than kernel_info_request and execute_request has no        *)
(* function called as its handler, no frame sent, no socket created and    *)
(* nothing raised; a warning is printed.                                   *)
(***************************************************************************)
C4_UnknownTypeHandled ==
    (/\ lastEvent = "shell"
     /\ lastMsg.signatureOK = "true"
     /\ Get(lastMsg.header, "msg_type").t = "string"
     /\ Get(lastMsg.header, "msg_type").s \notin {"kernel_info_request", "execute_request"})
    => /\ NothingDoneForLastArrival
       /\ socketsCreated = 3
       /\ lastRaised = "none"
       /\ warnings >= 1

(***************************************************************************)
(* What the logs say about an execute_request: its lifecycle so far, the   *)
(* frames it arrived as, and session.result as its last callback saw it.   *)
(***************************************************************************)
Completed(r, terminal) ==
    Lifecycle(r) = <<"execute_request", "beforeRun", "afterRun", terminal>>

RequestOf(r) == CallsFor(r)[1].origin

ResultOf(r) == CallsFor(r)[Len(CallsFor(r))].res

IsMsg(m, socket, messageType) ==
    m.socket = socket /\ Get(SentHeader(m), "msg_type") = Str(messageType)

CountOf(m) == Get(SentContent(m), "execution_count")

(***************************************************************************)
(* C5.  Success-path ordering: for an execute_request run as beforeRun,    *)
(* afterRun, onSuccess, the messages sent for it are, in this order and    *)
(* with nothing else: the input echo (pyin) on the iopub socket carrying   *)
(* content.code, the execute_reply with status ok on the shell socket, and *)
(* the output (pyout) on the iopub socket whose data is                    *)
(* session.result.mime; the last two carry the same execution_count.       *)
(***************************************************************************)
C5_SuccessPathOrdering ==
    \A r \in 1..nArrivals :
       Completed(r, "onSuccess") =>
          \A out \in {SentFor(r)} :
             /\ Len(out) = 3
             /\ IsMsg(out[1], "iopubSocket", "pyin")
             /\ Get(SentContent(out[1]), "code") = Get(ArrivalContent(RequestOf(r)), "code")
             /\ IsMsg(out[2], "shellSocket", "execute_reply")
             /\ Get(SentContent(out[2]), "status") = Str("ok")
             /\ IsMsg(out[3], "iopubSocket", "pyout")
             /\ Get(SentContent(out[3]), "data") = Get(ResultOf(r), "mime")
             /\ CountOf(out[2]).t = "number"
             /\ CountOf(out[2]) = CountOf(out[3])

\* A request has run to onSuccess while another request is still in flight.
C5_Witness ==
    \E r \in 1..nArrivals :
       /\ Completed(r, "onSuccess")
       /\ Get(ArrivalContent(RequestOf(r)), "code") = Str("1+1")
       /\ \E q \in 1..nArrivals : Lifecycle(q) = <<"execute_request", "beforeRun">>

(***************************************************************************)
(* C6.  Error-path pair: for an execute_request whose task ends with       *)
(* onError, onError sends exactly two messages, first the execute_reply    *)
(* with status error on the shell socket and then the error broadcast      *)
(* (pyerr) on the iopub socket; both carry the ename, evalue and traceback *)
(* of session.result.error; no reply with status ok and no output          *)
(* broadcast is sent for that request.                                     *)
(***************************************************************************)
C6_ErrorPathPair ==
    \A r \in 1..nArrivals :
       Completed(r, "onError") =>
          \A out \in {SentFor(r)}, error \in {Get(ResultOf(r), "error")} :
             /\ Len(out) = 3
             /\ IsMsg(out[1], "iopubSocket", "pyin")
             /\ IsMsg(out[2], "shellSocket", "execute_reply")
             /\ Get(SentContent(out[2]), "status") = Str("error")
             /\ IsMsg(out[3], "iopubSocket", "pyerr")
             /\ \A f \in {"ename", "evalue", "traceback"} :
                   /\ Get(error, f) # Undefined
                   /\ Get(SentContent(out[2]), f) = Get(error, f)
                   /\ Get(SentContent(out[3]), f) = Get(error, f)
             /\ \A i \in DOMAIN out :
                   /\ Get(SentContent(out[i]), "status") # Str("ok")
                   /\ ~IsMsg(out[i], "iopubSocket", "pyout")

\* A request has run to onError.
C6_Witness ==
    \E r \in 1..nArrivals :
       /\ Completed(r, "onError")
       /\ Get(Get(ResultOf(r), "error"), "evalue") = Str("boom")

(***************************************************************************)
(* C7.  Execution count monotonicity: the execute_reply messages sent for  *)
(* the requests of one session carry strictly increasing execution_count   *)
(* values, whether the attempts ended in onSuccess or in onError, and      *)
(* there is one reply per completed request.                               *)
(***************************************************************************)
Replies(sid) ==
    SelectSeq(AllSent, LAMBDA m : /\ IsMsg(m, "shellSocket", "execute_reply")
                               /\ Get(SentHeader(m), "session") = Str(sid))

CompletedIn(sid) ==
    {r \in 1..nArrivals :
        /\ Completed(r, "onSuccess") \/ Completed(r, "onError")
        /\ Get(ArrivalHeader(RequestOf(r)), "session") = Str(sid)}

C7_ExecutionCountMonotonic ==
    \A sid \in SessionIds :
       \A replies \in {Replies(sid)} :
          /\ Len(replies) = Cardinality(CompletedIn(sid))
          /\ \A i \in DOMAIN replies : CountOf(replies[i]).t = "number"
          /\ \A i, j \in DOMAIN replies :
                i < j => CountOf(replies[i]).n < CountOf(replies[j]).n

\* Two requests of one session were answered, one with ok and one with error.
C7_Witness ==
    \E sid \in SessionIds :
       \E replies \in {Replies(sid)} :
          /\ Len(replies) >= 2
          /\ \E i, j \in DOMAIN replies :
                /\ Get(SentContent(replies[i]), "status") = Str("ok")
                /\ Get(SentContent(replies[j]), "status") = Str("error")

C9_TamperDetection ==
    (cPhase \in {"tampered request", "tampered response"} /\ config.key # <<>>) =>
       cMsg.msg.signatureOK = "false"

\* A byte of the metadata frame of a response was replaced.
C9_Witness ==
    /\ cPhase = "tampered response"
    /\ config.key # <<>>
    /\ cIn[6] # cOut[6]
    /\ cIn[3] = cOut[3]

(***************************************************************************)
(* C10.  Authentication before decoding: for frames whose signature frame  *)
(* is not the recomputed tag, parse raises nothing, also when the signed   *)
(* frames are no JSON, and leaves header, parentHeader, metadata, content, *)
(* idents and delimiter undefined.                                         *)
(***************************************************************************)
C10_AuthenticationBeforeDecoding ==
    (cPhase # "start" /\ TagMismatch(cIn)) =>
       /\ cMsg.raised = "none"
       /\ cMsg.msg.signatureOK = "false"
       /\ cMsg.msg.header = Undefined
       /\ cMsg.msg.parentHeader = Undefined
       /\ cMsg.msg.content = Undefined
       /\ cMsg.msg.metadata = NoString
       /\ cMsg.msg.idents = NoString
       /\ cMsg.msg.delimiter = NoString

\* Frames with an empty signature whose header frame is no JSON were parsed.
C10_Witness ==
    /\ cPhase = "parsed"
    /\ TagMismatch(cIn)
    /\ ~JSONparseOK(BufferToString(cIn[4]))

(***************************************************************************)
(* C11.  Routing identities: frames made of k >= 0 identity frames, the    *)
(* delimiter, and a signature that is the tag of the four frames after it, *)
(* are parsed without raising, with signatureOK = true, with the frames    *)
(* after the delimiter taken as signature, header, parentHeader, metadata  *)
(* and content, and with the k identities recorded in order; respond on    *)
(* that Message sends the k identities and then the delimiter.             *)
(***************************************************************************)
DelimiterAt(frames) == CHOOSE d \in DOMAIN frames : frames[d] = Delimiter

\* The frames hold the delimiter once, then a signature that a client
\* computed with the configured key over the four frames that follow, which
\* are JSON where JSON is expected.
ClientSigned(frames) ==
    /\ Cardinality({d \in DOMAIN frames : frames[d] = Delimiter}) = 1
    /\ \E d \in {DelimiterAt(frames)} :
          /\ Len(frames) >= d + 5
          /\ frames[d + 1] = ClientDigest(config.key, frames[d + 2], frames[d + 3],
                                          frames[d + 4], frames[d + 5])
          /\ JSONparseOK(BufferToString(frames[d + 2]))
          /\ JSONparseOK(BufferToString(frames[d + 3]))
          /\ JSONparseOK(BufferToString(frames[d + 5]))

C11_RoutingIdentities ==
    (cPhase \in {"parsed", "responded"} /\ ClientSigned(cIn)) =>
       \E d \in {DelimiterAt(cIn)} :
          /\ cMsg.raised = "none"
          /\ cMsg.msg.signatureOK = "true"
          /\ cMsg.msg.signature = String(BufferToString(cIn[d + 1]))
          /\ cMsg.msg.header = JSONparse(BufferToString(cIn[d + 2]))
          /\ cMsg.msg.parentHeader = JSONparse(BufferToString(cIn[d + 3]))
          /\ cMsg.msg.metadata = String(BufferToString(cIn[d + 4]))
          /\ cMsg.msg.content = JSONparse(BufferToString(cIn[d + 5]))
          /\ cMsg.msg.delimiter = String(BufferToString(cIn[d]))
          /\ cMsg.msg.idents.def
          /\ (IF d = 2 THEN <<cMsg.msg.idents.s>> ELSE cMsg.msg.idents.s)
                = [i \in 1..(d - 1) |-> BufferToString(cIn[i])]
          /\ cPhase = "responded" =>
                SubSeq(cOut, 1, d) = [i \in 1..d |-> StringToBuffer(BufferToString(cIn[i]))]

(***************************************************************************)
(* C12.  Malformed authenticated message: an arrival on the shell socket   *)
(* whose signature is the recomputed tag but whose header, parentHeader or *)
(* content frame is no JSON, or whose header decodes to a value without a  *)
(* msg_type, is dropped: the listener raises nothing, no function is       *)
(* called as a handler, no task is queued, no frame is sent, and the       *)
(* kernel goes on handling arrivals.                                       *)
(***************************************************************************)
MalformedFrames(frames) ==
    \/ ~JSONparseOK(BufferToString(frames[4]))
    \/ ~JSONparseOK(BufferToString(frames[5]))
    \/ ~JSONparseOK(BufferToString(frames[7]))
    \/ Get(ArrivalHeader(frames), "msg_type") = Undefined

C12_MalformedAuthenticatedDropped ==
    (/\ lastEvent = "shell"
     /\ ~config.clobbered
     /\ ~Unauthenticated(lastArrival)
     /\ MalformedFrames(lastArrival))
    => /\ lastRaised = "none"
       /\ ~crashed
       /\ NothingDoneForLastArrival

(***************************************************************************)
(* C13.  kernel_info_request: the arrival of an authenticated              *)
(* kernel_info_request makes the shell listener send exactly one message,  *)
(* a kernel_info_reply on the shell socket whose content has language,     *)
(* language_version and protocol_version; nothing is sent on the iopub     *)
(* socket, no task is handed to the session manager, nothing is raised and *)
(* the kernel's state (config, sessions, sockets, warnings) is unchanged.  *)
(***************************************************************************)
KernelInfoArrived ==
    /\ lastEvent' = "shell"
    /\ nArrivals' = nArrivals + 1
    /\ lastMsg'.signatureOK = "true"
    /\ Get(lastMsg'.header, "msg_type") = Str("kernel_info_request")

C13_KernelInfoReply ==
    [][KernelInfoArrived =>
         /\ lastRaised' = "none"
         /\ crashed' = crashed
         /\ \E m \in {sent'["listener"][Len(sent'["listener"])]} :
               /\ sent'["listener"] = Append(sent["listener"], m)
               /\ m.req = nArrivals'
               /\ m.socket = "shellSocket"
               /\ Get(SentHeader(m), "msg_type") = Str("kernel_info_reply")
               /\ Get(SentContent(m), "language") = Str("javascript")
               /\ Get(SentContent(m), "language_version") = Arr(NodeVersion)
               /\ Get(SentContent(m), "protocol_version") = Arr(ProtocolVersion)
         /\ \A sid \in SessionIds : sent'[sid] = sent[sid]
         /\ sessions' = sessions
         /\ config' = config
         /\ socketsCreated' = socketsCreated
         /\ warnings' = warnings
         /\ incAt' = incAt]_vars

\* A kernel_info_request was answered while an execute_request is running.
C13_Witness ==
    /\ lastEvent = "shell"
    /\ lastMsg.signatureOK = "true"
    /\ Get(lastMsg.header, "msg_type") = Str("kernel_info_request")
    /\ \E m \in EverySend : m.req = nArrivals /\ m.socket = "shellSocket"
    /\ \E sid \in SessionIds : sessions[sid].stage = "running"

(***************************************************************************)
(* C14.  Bind failure is fatal: whenever the shell listener has handled an *)
(* arrival, the shell, iopub and heartbeat sockets are all bound; a kernel *)
(* one of whose binds did not succeed serves no request.                   *)
(***************************************************************************)
C14_BindFailureIsFatal ==
    lastEvent = "shell" => bound = Sockets

(***************************************************************************)
(* C15.  Response attribution under interleaving: whatever the order in    *)
(* which the session manager calls the callbacks of the execute requests   *)
(* in flight, every message a callback of request R sends has R's header   *)
(* as its parentHeader, the username and session of R's header in its own  *)
(* header, the empty mapping as metadata, and R's identity and delimiter   *)
(* frames; it has nothing of a request that differs from R.                *)
(***************************************************************************)
CallbackSends == Range(sent["s1"]) \cup Range(sent["s2"])

C15_ResponseAttribution ==
    \A m \in CallbackSends :
       \E R \in {m.origin} :
          /\ ~Unauthenticated(R)
          /\ Get(ArrivalHeader(R), "msg_type") = Str("execute_request")
          /\ SentParent(m) = ArrivalHeader(R)
          /\ BufferToString(m.frames[5]) = Stringify(ArrivalHeader(R))
          /\ Get(SentHeader(m), "username") = Get(ArrivalHeader(R), "username")
          /\ Get(SentHeader(m), "session") = Get(ArrivalHeader(R), "session")
          /\ JSONparse(BufferToString(m.frames[6])) = Obj(<<>>)
          /\ m.frames[1] = R[1]
          /\ m.frames[2] = R[2]
          /\ Len(m.frames) = 7

(***************************************************************************)
(* C16.  Exactly one reply per execute_request: with a session manager     *)
(* that calls beforeRun, afterRun and then one of onSuccess and onError    *)
(* for every task it was handed, and completes every task, every           *)
(* authenticated execute_request handed to it leads to a state in which    *)
(* exactly one execute_reply was sent for it on the shell socket and       *)
(* exactly two messages on the iopub socket, one input echo and one output *)
(* or error; there are never more of them; afterRun sends nothing; and the *)
(* shell socket carries nothing but kernel_info_reply and execute_reply.   *)
(* A process that an uncaught exception ended completes no task.           *)
(***************************************************************************)
CountSent(r, socket, messageTypes) ==
    Len(SelectSeq(SentFor(r), LAMBDA m : /\ m.socket = socket
                                         /\ SentType(m) \in messageTypes))

HandedOver(r) ==
    \E sid \in SessionIds :
       \/ \E i \in DOMAIN sessions[sid].queue : sessions[sid].queue[i].req = r
       \/ \E c \in Range(calls[sid]) : c.req = r

Answered(r) ==
    /\ Len(SentFor(r)) = 3
    /\ CountSent(r, "shellSocket", {"execute_reply"}) = 1
    /\ CountSent(r, "iopubSocket", {"pyin"}) = 1
    /\ CountSent(r, "iopubSocket", {"pyout", "pyerr"}) = 1

NeverMore ==
    /\ \A r \in 1..nArrivals :
          HandedOver(r) =>
             /\ CountSent(r, "shellSocket", {"execute_reply"}) <= 1
             /\ CountSent(r, "iopubSocket", {"pyin"}) <= 1
             /\ CountSent(r, "iopubSocket", {"pyout", "pyerr"}) <= 1
             /\ Len(SentFor(r)) <= 3
             /\ Lifecycle(r) = <<"execute_request", "beforeRun", "afterRun">>
                   => Len(SentFor(r)) = 1
    /\ \A m \in EverySend :
          m.socket = "shellSocket" =>
             SentType(m) \in {"kernel_info_reply", "execute_reply"}

C16_ExactlyOneReply ==
    /\ []NeverMore
    /\ \A r \in 1..MaxArrivals : HandedOver(r) ~> (Answered(r) \/ crashed)

\* Both of two requests handed to the session manager have been answered.
C16_Witness ==
    /\ ~crashed
    /\ nArrivals = 2
    /\ HandedOver(1) /\ Answered(1)
    /\ HandedOver(2) /\ Answered(2)

(***************************************************************************)
(* C17.  Input-echo count.  beforeRun sends session.executionCount as it   *)
(* is when the session manager calls it; onSuccess and onError send it as  *)
(* it is when the attempt has completed.  The session manager increments   *)
(* the counter once per completed attempt.                                 *)
(***************************************************************************)
EchoesOf(r) ==
    SelectSeq(SentFor(r), LAMBDA m : IsMsg(m, "iopubSocket", "pyin"))

RepliesTo(r) ==
    SelectSeq(SentFor(r), LAMBDA m : IsMsg(m, "shellSocket", "execute_reply"))

UnderSignatureOfRespond ==
    /\ cPhase \in {"received", "tampered response", "shifted response"}
    /\ config.key # <<>>
    /\ cIn[3] = cOut[3]

C18_FramewiseAuthentication ==
    (UnderSignatureOfRespond /\ cMsg.msg.signatureOK = "true")
        => \A i \in 4..7 : cIn[i] = cOut[i]

(***************************************************************************)
(* C19.  Transpile history on failure: after any calls of transpile,       *)
(* runningHistory holds the initial declarations followed by the code of   *)
(* the calls whose compilation succeeded, in the order of the calls; a     *)
(* call whose compilation threw has left runningHistory and compiledLength *)
(* as they were and has thrown an error with the name of the error the     *)
(* compiler threw.                                                         *)
(***************************************************************************)
Compiled(log) ==
    LET kept == SelectSeq(log, LAMBDA u : u.compiled)
    IN [i \in DOMAIN kept |-> kept[i].code]

HistoryIsWhatCompiled ==
    configBuilder.runningHistory = <<TScode>> \o Compiled(submitted)

TranspileFailed == submitted # <<>> /\ ~lastTranspile.result.ok

FailureLeavesHistory ==
    TranspileFailed =>
       /\ configBuilder.runningHistory = lastTranspile.runningHistory
       /\ configBuilder.compiledLength = lastTranspile.compiledLength

C19_TranspileHistoryOnFailure ==
    /\ HistoryIsWhatCompiled
    /\ FailureLeavesHistory
    /\ TranspileFailed => lastTranspile.thrown.name = lastTranspile.result.name

(***************************************************************************)
(* C20.  Undefined-display flags: the configuration that Parser.parse      *)
(* returns has hideUndefined = true only if --hide-undefined is among the  *)
(* arguments; --show-undefined does not turn it on.                        *)
(***************************************************************************)
Among(arg, args) == \E i \in DOMAIN args : args[i] = arg

C20_UndefinedDisplayFlags ==
    (tsStatus = "configured" /\ kernelConfig.hideUndefined)
        => Among(<<"-", "-", "hide-undefined">>, argv)

====
